---- MODULE Spec2Model ----
(***************************************************************************)
(* A model of run.py, the e-ink status dashboard: the poll loop of main,   *)
(* the renderer display, and the uptime aggregation get_service_ratios.    *)
(*                                                                         *)
(* Three specifications share the module:                                  *)
(*   Spec        the poll loop of main with the calls it makes;            *)
(*   SpecDisplay one call of display on inputs drawn from wider sets;      *)
(*   SpecRatios  one call of get_service_ratios against a paginating       *)
(*               upstream.                                                 *)
(***************************************************************************)
EXTENDS Integers, Sequences, FiniteSets

VARIABLES
    \* ---- main / display ------------------------------------------------
    pc,               \* position of the single thread
    uptimes,          \* local of main: result of get_service_ratios()
    down,             \* local of main: result of get_down_monitors()
    frontend_events,  \* local of main: get_sentry_events("frontend")
    backend_events,   \* local of main: get_sentry_events("backend")
    new_data,         \* local of main
    old_data,         \* local of main
    image,            \* local of display: the draw calls made so far
    sleep,            \* seconds of the time.sleep in progress (0: none)
    exit,             \* how the process ended ("running" while it has not)
    module_exit,      \* epdconfig.module_exit() has been called
    shown,            \* device: fingerprint of the frame it last accepted
    calls,            \* epd.display invocations in the current cycle
    ioerr,            \* display() caught an IOError in the current cycle
    fetched,          \* the four fetches of the current cycle all returned
    cycle_old,        \* old_data when the current cycle started
    prev,             \* the previous cycle: [fetched, fields, calls]
    \* ---- get_service_ratios -------------------------------------------
    rpc,              \* position inside get_service_ratios
    upstream,         \* the upstream's monitor list
    page,             \* the upstream's page size
    monitors,         \* local: monitors accumulated so far
    total,            \* local: res['pagination']['total']
    ratios,           \* local: the dict, as a sequence of <<key, value>>
    result,           \* the value returned
    offsets,          \* the offset of every request issued so far
    status,           \* outcome of the latest request
    all_ok            \* every response so far was a 200 / "ok" slice

mainVars == <<pc, uptimes, down, frontend_events, backend_events, new_data,
              old_data, image, sleep, exit, module_exit, shown, calls, ioerr,
              fetched, cycle_old, prev>>
ratioVars == <<rpc, upstream, page, monitors, total, ratios, result, offsets,
               status, all_ok>>
vars == <<mainVars, ratioVars>>

----------------------------------------------------------------------------
(* Python values.  A fetch returns None or a list / dict; both are modelled *)
(* as one record shape so that any two values can be compared.              *)

None == [none |-> TRUE, val |-> <<>>]
Some(v) == [none |-> FALSE, val |-> v]

\* Python truthiness of a fetched value: None, [] and {} are falsy.
Truthy(v) == ~v.none /\ Len(v.val) > 0

Index(seq, x) == CHOOSE i \in 1..Len(seq) : seq[i] = x

Range(seq) == {seq[i] : i \in 1..Len(seq)}

----------------------------------------------------------------------------
(* display(): the layout.  A draw call is recorded as                      *)
(* [op, x, y, x2, y2, s]: draw.text((x, y), s) or draw.line((x,y,x2,y2)).  *)

\* epd.width and epd.height of the 7.5 inch V2 panel (epd7in5_V2): 800 x 480.
EpdWidth == 800
EpdHeight == 480

Text(x, y, s) == [op |-> "text", x |-> x, y |-> y, x2 |-> x, y2 |-> y, s |-> s]
Line(x, y, x2, y2) == [op |-> "line", x |-> x, y |-> y, x2 |-> x2, y2 |-> y2, s |-> "line"]

\* for serv, ratio in uptimes.items(): two texts per service, y from 50.
RECURSIVE UptimeRows(_, _)
UptimeRows(items, y) ==
    IF items = <<>> THEN <<>>
    ELSE <<Text(10, y, "serv"), Text(10 + 8, y + 20, "ratio")>>
         \o UptimeRows(Tail(items), y + 20 + 26)

\* The uptime column and the two dividing lines.
DrawUptimes(u) ==
    <<Text(5, 0, "Uptime")>>
    \o (IF Truthy(u) THEN UptimeRows(u.val, 50) ELSE <<>>)
    \o <<Line(0, 50, 150, 50), Line(150, 0, 150, EpdHeight)>>

\* The y the cursor is left at by the down-monitor section.
DownOffsetAlwaysTop(d) == 0
DownOffset(d) == IF Len(d) > 0 THEN 80 ELSE 0

\* if len(down) > 0: heading, rule and the comma-joined names.
DrawDown(d) ==
    IF Len(d) > 0
    THEN <<Text(160, 0, "!! Down Monitors !!"), Line(150, 80, EpdWidth, 80),
           Text(160, 50, "down names")>>
    ELSE <<>>

\* for event in events: "(count) title", then the culprit, 38 px per event.
RECURSIVE EventRows(_, _, _)
EventRows(events, x, y) ==
    IF events = <<>> THEN <<>>
    ELSE <<Text(x, y, "title"), Text(x + 12, y + 18, "culprit")>>
         \o EventRows(Tail(events), x, y + 18 + 20)

\* A heading with its rule and its events; the cursor ends 60 + 38n lower.
DrawSection(heading, events, x, y) ==
    <<Text(x, y, heading), Line(x - 10, y + 50, EpdWidth, y + 50)>>
    \o EventRows(events, x, y + 60)

SectionEnd(events, y) == y + 60 + (18 + 20) * Len(events)

\* The draw calls display makes before it fails or reaches epd.display.
\* len(None) and iterating None raise TypeError.
Render(u, d, b, f) ==
    IF d.none THEN [err |-> "TypeError", draws |-> DrawUptimes(u)]
    ELSE LET top == DrawUptimes(u) \o DrawDown(d.val)
             y0 == DownOffset(d.val)
         IN IF b.none
            THEN [err |-> "TypeError",
                  draws |-> top \o <<Text(160, y0, "Backend"),
                                     Line(150, y0 + 50, EpdWidth, y0 + 50)>>]
            ELSE LET y1 == SectionEnd(b.val, y0)
                     upto == top \o DrawSection("Backend", b.val, 160, y0)
                 IN IF f.none
                    THEN [err |-> "TypeError",
                          draws |-> upto \o <<Text(160, y1, "Frontend"),
                                              Line(150, y1 + 50, EpdWidth, y1 + 50)>>]
                    ELSE [err |-> "none",
                          draws |-> upto \o DrawSection("Frontend", f.val, 160, y1)]

----------------------------------------------------------------------------
(* The fetches, as main sees them.                                         *)

\* What get_service_ratios can return: None or a dict of service -> ratio
\* (hundredths of a percent).  SpecRatios models the call itself.
UptimesResults ==
    <<None, Some(<< <<(<<"a", "p", "i">>), 9900>> >>)>>

\* Upstream answers to getMonitors?statuses=8-9: "bad" is a non-200 or
\* non-"ok" response, otherwise the friendly names of the down monitors.
DownResponses ==
    <<[stat |-> "bad", monitors |-> <<>>],
      [stat |-> "ok", monitors |-> <<>>],
      [stat |-> "ok", monitors |-> <<"db 1">>]>>

Issue(n) == [title |-> n, culprit |-> "views.py", count |-> 3]

\* Upstream answers to the Sentry issues request.
SentryResponses ==
    <<[stat |-> "bad", issues |-> <<>>],
      [stat |-> "ok", issues |-> <<Issue("KeyError")>>]>>

SentryLimit == 4

\* res.json()[:4]
FirstN(seq, n) == IF Len(seq) <= n THEN seq ELSE SubSeq(seq, 1, n)

\* get_down_monitors: the names on 200/"ok", None after logging otherwise.
get_down_monitors(res) ==
    IF res.stat = "ok" THEN Some(res.monitors) ELSE None

\* get_sentry_events: the first four issues on 200, None otherwise.
get_sentry_events(res) ==
    IF res.stat = "ok" THEN Some(FirstN(res.issues, SentryLimit)) ELSE None

DownResults == [i \in 1..Len(DownResponses) |-> get_down_monitors(DownResponses[i])]
SentryResults == [i \in 1..Len(SentryResponses) |-> get_sentry_events(SentryResponses[i])]

\* str(x): "None" for None, the repr of the list or dict otherwise.  The
\* repr is self-delimiting, so the concatenation of four of them determines
\* each part: the concatenation is kept as the 4-tuple of its parts.
Str(v) == IF v.none THEN <<"None">> ELSE <<"[">> \o v.val \o <<"]">>

\* hash(s) of the concatenated string: an integer, never -1 in CPython.
\* Collisions of the 64-bit hash are not modelled: the code of a string is
\* its position among the strings the fetches can produce.
hash(s) ==
    LET U == [i \in 1..Len(UptimesResults) |-> Str(UptimesResults[i])]
        D == [i \in 1..Len(DownResults) |-> Str(DownResults[i])]
        E == [i \in 1..Len(SentryResults) |-> Str(SentryResults[i])]
    IN (((Index(U, s[1]) - 1) * Len(D) + (Index(D, s[2]) - 1)) * Len(E)
        + (Index(E, s[3]) - 1)) * Len(E) + (Index(E, s[4]) - 1)

\* line 167
Fingerprint(u, d, f, b) == hash(<<Str(u), Str(d), Str(f), Str(b)>>)

\* line 168: if new_data != old_data
ChangedAlways(new, old) == TRUE
Changed(new, old) == new # old

NormalInterval == 30
ErrorInterval == 60

\* except Exception (line 176): KeyboardInterrupt and SystemExit derive from
\* BaseException only and pass through.
LoopCatchesRequestOnly(e) == e = "RequestException"
LoopCatches(e) == e \notin {"KeyboardInterrupt", "SystemExit"}

FetchPcs == {"uptimes", "down", "frontend", "backend"}
DisplayPcs == {"fonts", "draw", "push"}

ghostVars == <<shown, calls, ioerr, fetched, cycle_old, prev>>
fieldVars == <<uptimes, down, frontend_events, backend_events>>

\* An exception reaching the try of main's loop body: caught ones are logged
\* and followed by time.sleep(60), the others end the process.
Raise(e) ==
    IF LoopCatches(e)
    THEN pc' = "backoff" /\ sleep' = ErrorInterval /\ exit' = exit
    ELSE pc' = "exited" /\ sleep' = 0 /\ exit' = e

\* An exception raised inside display's try (lines 146-151): IOError is
\* logged and display returns; KeyboardInterrupt is logged and exit() raises
\* SystemExit (module_exit is commented out); anything else propagates.
DisplayRaise(e) ==
    IF e = "IOError"
    THEN pc' = "record" /\ ioerr' = TRUE /\ UNCHANGED <<sleep, exit>>
    ELSE /\ ioerr' = ioerr
         /\ IF e = "KeyboardInterrupt" THEN Raise("SystemExit") ELSE Raise(e)

----------------------------------------------------------------------------
(* main(): the poll loop.                                                  *)

NoCycle == [fetched |-> FALSE, fields |-> <<None, None, None, None>>, calls |-> 0]

\* After epd.init(), epd.Clear(), old_data = -1, new_data = 1 (lines 155-160).
\* A local not yet bound in the current iteration reads as None here; the
\* code binds all four before it reads any.
InitMain ==
    /\ pc = "uptimes"
    /\ uptimes = None /\ down = None
    /\ frontend_events = None /\ backend_events = None
    /\ new_data = 1 /\ old_data = -1
    /\ image = <<>>
    /\ sleep = 0
    /\ exit = "running"
    /\ module_exit = FALSE
    /\ shown = -1
    /\ calls = 0 /\ ioerr = FALSE /\ fetched = FALSE
    /\ cycle_old = -1
    /\ prev = NoCycle

IdleRatios ==
    /\ rpc = "idle"
    /\ upstream = <<>> /\ page = 1
    /\ monitors = <<>> /\ total = 0
    /\ ratios = <<>> /\ result = None
    /\ offsets = <<>> /\ status = "none" /\ all_ok = TRUE

Init == InitMain /\ IdleRatios

\* line 163: uptimes = get_service_ratios(); a transport or decoding error
\* raises out of the call.  A call that never returns (SpecRatios) leaves
\* main at this position for ever.
GetServiceRatios ==
    /\ pc = "uptimes"
    /\ \/ /\ \E r \in Range(UptimesResults) : uptimes' = r
          /\ pc' = "down"
          /\ UNCHANGED <<sleep, exit>>
       \/ /\ Raise("RequestException")
          /\ UNCHANGED uptimes
    /\ UNCHANGED <<down, frontend_events, backend_events, new_data, old_data,
                   image, module_exit, ghostVars, ratioVars>>

\* line 164: down = get_down_monitors()
GetDownMonitors ==
    /\ pc = "down"
    /\ \/ /\ \E res \in Range(DownResponses) : down' = get_down_monitors(res)
          /\ pc' = "frontend"
          /\ UNCHANGED <<sleep, exit>>
       \/ /\ Raise("RequestException")
          /\ UNCHANGED down
    /\ UNCHANGED <<uptimes, frontend_events, backend_events, new_data, old_data,
                   image, module_exit, ghostVars, ratioVars>>

\* line 165: frontend_events = get_sentry_events("frontend")
GetFrontendEvents ==
    /\ pc = "frontend"
    /\ \/ /\ \E res \in Range(SentryResponses) :
                frontend_events' = get_sentry_events(res)
          /\ pc' = "backend"
          /\ UNCHANGED <<sleep, exit>>
       \/ /\ Raise("RequestException")
          /\ UNCHANGED frontend_events
    /\ UNCHANGED <<uptimes, down, backend_events, new_data, old_data,
                   image, module_exit, ghostVars, ratioVars>>

\* line 166: backend_events = get_sentry_events("backend")
GetBackendEvents ==
    /\ pc = "backend"
    /\ \/ /\ \E res \in Range(SentryResponses) :
                backend_events' = get_sentry_events(res)
          /\ pc' = "hash"
          /\ fetched' = TRUE
          /\ UNCHANGED <<sleep, exit>>
       \/ /\ Raise("RequestException")
          /\ UNCHANGED <<backend_events, fetched>>
    /\ UNCHANGED <<uptimes, down, frontend_events, new_data, old_data, image,
                   module_exit, shown, calls, ioerr, cycle_old, prev, ratioVars>>

\* lines 167-172: the fingerprint and the decision to display.
Compare ==
    /\ pc = "hash"
    /\ new_data' = Fingerprint(uptimes, down, frontend_events, backend_events)
    /\ pc' = IF Changed(new_data', old_data) THEN "fonts" ELSE "record"
    /\ UNCHANGED <<fieldVars, old_data, image, sleep, exit, module_exit,
                   ghostVars, ratioVars>>

\* lines 93-99: the fonts are loaded and the image is created; a missing
\* font file raises OSError (IOError).
DisplayLoadFonts ==
    /\ pc = "fonts"
    /\ \/ pc' = "draw" /\ UNCHANGED <<sleep, exit, ioerr>>
       \/ DisplayRaise("IOError")
    /\ UNCHANGED <<fieldVars, new_data, old_data, image, module_exit,
                   shown, calls, fetched, cycle_old, prev, ratioVars>>

\* lines 100-143: the draw calls.
DisplayDraw ==
    /\ pc = "draw"
    /\ LET r == Render(uptimes, down, backend_events, frontend_events)
       IN /\ image' = r.draws
          /\ IF r.err = "none"
             THEN pc' = "push" /\ UNCHANGED <<sleep, exit, ioerr>>
             ELSE DisplayRaise(r.err)
    /\ UNCHANGED <<fieldVars, new_data, old_data, module_exit,
                   shown, calls, fetched, cycle_old, prev, ratioVars>>

\* lines 144-145: epd.display(epd.getbuffer(image)); the device accepts the
\* frame or the transfer fails with an IOError.
DisplayPush ==
    /\ pc = "push"
    /\ calls' = calls + 1
    /\ \/ /\ shown' = new_data
          /\ pc' = "record"
          /\ UNCHANGED <<sleep, exit, ioerr>>
       \/ /\ DisplayRaise("IOError")
          /\ UNCHANGED shown
    /\ UNCHANGED <<fieldVars, new_data, old_data, image, module_exit,
                   fetched, cycle_old, prev, ratioVars>>

\* lines 173-175: old_data = new_data, then time.sleep(30).
Record ==
    /\ pc = "record"
    /\ old_data' = new_data
    /\ sleep' = NormalInterval
    /\ pc' = "sleep"
    /\ UNCHANGED <<fieldVars, new_data, image, exit, module_exit,
                   ghostVars, ratioVars>>

\* time.sleep returns (line 175 or 178) and the while loop starts over.  The
\* locals of the finished iteration are dead: the model clears them and
\* keeps the iteration's fields and epd.display count in prev.
Wake ==
    /\ pc \in {"sleep", "backoff"}
    /\ pc' = "uptimes"
    /\ sleep' = 0
    /\ uptimes' = None /\ down' = None
    /\ frontend_events' = None /\ backend_events' = None
    /\ image' = <<>>
    /\ prev' = [fetched |-> fetched,
                fields |-> <<uptimes, down, frontend_events, backend_events>>,
                calls |-> calls]
    /\ calls' = 0 /\ ioerr' = FALSE /\ fetched' = FALSE
    /\ cycle_old' = old_data
    /\ UNCHANGED <<new_data, old_data, exit, module_exit, shown, ratioVars>>

\* KeyboardInterrupt while main is outside display: a fetch, the hash, the
\* assignment or either sleep.  Nothing in main handles it.
InterruptMain ==
    /\ pc \in FetchPcs \cup {"hash", "record", "sleep", "backoff"}
    /\ Raise("KeyboardInterrupt")
    /\ UNCHANGED <<fieldVars, new_data, old_data, image, module_exit,
                   ghostVars, ratioVars>>

\* KeyboardInterrupt inside display's try (lines 148-151).
InterruptDisplay ==
    /\ pc \in DisplayPcs
    /\ DisplayRaise("KeyboardInterrupt")
    /\ UNCHANGED <<fieldVars, new_data, old_data, image, module_exit,
                   shown, calls, fetched, cycle_old, prev, ratioVars>>

Next ==
    \/ GetServiceRatios
    \/ GetDownMonitors
    \/ GetFrontendEvents
    \/ GetBackendEvents
    \/ Compare
    \/ DisplayLoadFonts
    \/ DisplayDraw
    \/ DisplayPush
    \/ Record
    \/ Wake
    \/ InterruptMain
    \/ InterruptDisplay

Spec == Init /\ [][Next]_vars

----------------------------------------------------------------------------
(* One call of display on inputs from wider sets than the poll loop's.     *)

MaxEvents == 2
MaxDown == 2

SeqsUpTo(S, n) == UNION {[1..k -> S] : k \in 0..n}

DisplayUptimes == Range(UptimesResults) \cup {Some(<<>>)}
DisplayDown == {None} \cup {Some(d) : d \in SeqsUpTo({"db 1", "web 2"}, MaxDown)}
DisplayEvents ==
    {None} \cup {Some(e) : e \in SeqsUpTo({Issue("KeyError"), Issue("Timeout")},
                                          MaxEvents)}

\* main has just called display(epd, uptimes, down, backend_events,
\* frontend_events) (line 170).
InitDisplay ==
    /\ pc = "fonts"
    /\ uptimes \in DisplayUptimes
    /\ down \in DisplayDown
    /\ frontend_events \in DisplayEvents
    /\ backend_events \in DisplayEvents
    /\ new_data = 1 /\ old_data = -1
    /\ image = <<>>
    /\ sleep = 0
    /\ exit = "running"
    /\ module_exit = FALSE
    /\ shown = -1
    /\ calls = 0 /\ ioerr = FALSE /\ fetched = TRUE
    /\ cycle_old = -1
    /\ prev = NoCycle
    /\ IdleRatios

NextDisplay ==
    \/ DisplayLoadFonts
    \/ DisplayDraw
    \/ DisplayPush
    \/ InterruptDisplay

SpecDisplay == InitDisplay /\ [][NextDisplay]_vars

----------------------------------------------------------------------------
(* get_service_ratios(): pagination, grouping and averaging.               *)

MaxMonitors == 3
MaxPage == 2
MaxRequests == 4

\* A monitor as the upstream reports it: friendly_name is a string (a
\* sequence of characters), custom_uptime_ratio a decimal string such as
\* "99.500", kept as <<whole part, thousandths>>.
Monitor(name, whole, frac) ==
    [friendly_name |-> name, custom_uptime_ratio |-> <<whole, frac>>]

MonitorPool ==
    {Monitor(<<"a", " ", "1">>, 99, 500),
     Monitor(<<"a", " ", "2">>, 98, 500),
     Monitor(<<"b">>, 99, 125),
     Monitor(<<" ", "a">>, 100, 0)}

\* float(monitor['custom_uptime_ratio']), in thousandths of a percent.
float(r) == r[1] * 1000 + r[2]

MinOf(S) == CHOOSE x \in S : \A y \in S : x <= y

\* monitor['friendly_name'].split(" ")[0]
FirstTokenWholeName(name) == name
FirstToken(name) ==
    LET spaces == {i \in 1..Len(name) : name[i] = " "}
    IN IF spaces = {} THEN name ELSE SubSeq(name, 1, MinOf(spaces) - 1)

\* The page the upstream serves for a request with the given offset.
Slice(list, offset, limit) ==
    SubSeq(list, offset + 1,
           IF offset + limit < Len(list) THEN offset + limit ELSE Len(list))

\* line 50: offset={len(monitors)}
NextOffsetPageNumber(ms, reqs) == Len(reqs)
NextOffset(ms, reqs) == Len(ms)

\* lines 53-58: the dict as a sequence of <<key, list of floats>>, keys
\* in insertion order.
RECURSIVE GroupBy(_, _)
GroupBy(ms, acc) ==
    IF ms = <<>> THEN acc
    ELSE LET serv_name == FirstToken(Head(ms).friendly_name)
             v == float(Head(ms).custom_uptime_ratio)
             at == {i \in 1..Len(acc) : acc[i][1] = serv_name}
         IN GroupBy(Tail(ms),
                    IF at # {}
                    THEN [i \in 1..Len(acc) |->
                            IF i \in at THEN <<acc[i][1], Append(acc[i][2], v)>>
                            ELSE acc[i]]
                    ELSE Append(acc, <<serv_name, <<v>>>>))

RECURSIVE SumSeq(_)
SumSeq(xs) == IF xs = <<>> THEN 0 ELSE Head(xs) + SumSeq(Tail(xs))

\* round(sum / n, 2), in hundredths of a percent (sum is in thousandths).
\* The quotient is a binary float: at an exact decimal tie its
\* representation error decides the direction, so both neighbours are
\* outcomes.
Round2(sum, n) ==
    LET q == sum \div (10 * n)
        r == sum % (10 * n)
    IN IF 2 * r < 10 * n THEN {q}
       ELSE IF 2 * r > 10 * n THEN {q + 1}
       ELSE {q, q + 1}

\* lines 59-61: every list replaced by its rounded mean.
RECURSIVE AverageAll(_)
AverageAll(rs) ==
    IF rs = <<>> THEN {<<>>}
    ELSE {<< <<Head(rs)[1], v>> >> \o rest :
            v \in Round2(SumSeq(Head(rs)[2]), Len(Head(rs)[2])),
            rest \in AverageAll(Tail(rs))}

\* get_service_ratios has just been called: the upstream holds some list
\* of monitors and serves pages of some size.
InitRatios ==
    /\ InitMain
    /\ rpc = "start"
    /\ upstream \in SeqsUpTo(MonitorPool, MaxMonitors)
    /\ page \in 1..MaxPage
    /\ monitors = <<>> /\ total = 0
    /\ ratios = <<>> /\ result = None
    /\ offsets = <<>> /\ status = "none" /\ all_ok = TRUE

\* lines 43-47 and 63-64: the first request.  requests.post can also raise
\* (no connection), which leaves the call through the exception.
FirstRequest ==
    /\ rpc = "start"
    /\ offsets' = <<0>>
    /\ \/ /\ status' = "ok"
          /\ monitors' = Slice(upstream, 0, page)
          /\ total' = Len(upstream)
          /\ rpc' = "paging"
          /\ UNCHANGED <<result, all_ok>>
       \/ /\ status' = "bad"
          /\ result' = None
          /\ rpc' = "returned"
          /\ all_ok' = FALSE
          /\ UNCHANGED <<monitors, total>>
       \/ /\ status' = "raise"
          /\ rpc' = "raised"
          /\ all_ok' = FALSE
          /\ UNCHANGED <<monitors, total, result>>
    /\ UNCHANGED <<upstream, page, ratios, mainVars>>

\* lines 49-52: one iteration of the while loop.  A failed response and a
\* page without monitors leave the locals as they were; the model stops
\* producing them after MaxRequests requests.
PageRequest ==
    /\ rpc = "paging"
    /\ total > Len(monitors)
    /\ LET offset == NextOffset(monitors, offsets)
       IN /\ offsets' = Append(offsets, offset)
          /\ \/ /\ status' = "ok"
                /\ monitors' = monitors \o Slice(upstream, offset, page)
                /\ UNCHANGED <<all_ok, rpc>>
             \/ /\ Len(offsets) < MaxRequests
                /\ status' = "bad"
                /\ all_ok' = FALSE
                /\ UNCHANGED <<monitors, rpc>>
             \/ /\ Len(offsets) < MaxRequests
                /\ status' = "empty"
                /\ all_ok' = FALSE
                /\ UNCHANGED <<monitors, rpc>>
             \/ /\ status' = "raise"
                /\ rpc' = "raised"
                /\ all_ok' = FALSE
                /\ UNCHANGED monitors
    /\ UNCHANGED <<upstream, page, total, ratios, result, mainVars>>

\* lines 53-58, once the loop condition is false.
Group ==
    /\ rpc = "paging"
    /\ ~(total > Len(monitors))
    /\ ratios' = GroupBy(monitors, <<>>)
    /\ rpc' = "grouped"
    /\ UNCHANGED <<upstream, page, monitors, total, result, offsets, status,
                   all_ok, mainVars>>

\* lines 59-62
Average ==
    /\ rpc = "grouped"
    /\ \E r \in AverageAll(ratios) :
          /\ ratios' = r
          /\ result' = Some(r)
    /\ rpc' = "returned"
    /\ UNCHANGED <<upstream, page, monitors, total, offsets, status, all_ok,
                   mainVars>>

NextRatios ==
    \/ FirstRequest
    \/ PageRequest
    \/ Group
    \/ Average

SpecRatios == InitRatios /\ [][NextRatios]_vars

----------------------------------------------------------------------------
(* Properties of the poll loop (checked under Spec).                       *)

Fields == <<uptimes, down, frontend_events, backend_events>>

CycleOver == pc \in {"sleep", "backoff"}

ExactlyOneFailed ==
    Cardinality({i \in 1..4 : Fields[i].none}) = 1

\* C1: when exactly one of the four fetches of a cycle returns the failure
\* value and the fingerprint differs from old_data, the cycle still calls
\* epd.display (cycles in which display itself met an I/O error set aside).
C1_SingleFailureStillPushes ==
    (CycleOver /\ fetched /\ ExactlyOneFailed /\ ~ioerr
        /\ new_data # cycle_old)
    => calls = 1

\* C2: two consecutive cycles whose four fetched fields are identical invoke
\* epd.display at most once between them, whatever the first one ended in.
C2_AtMostOneDisplay ==
    (prev.fetched /\ fetched /\ prev.fields = Fields)
    => prev.calls + calls <= 1

\* The second of two identical cycles has finished without displaying, after
\* the first one pushed the frame.
C2_Witness ==
    /\ pc = "sleep"
    /\ prev.fetched /\ fetched /\ prev.fields = Fields
    /\ prev.calls = 1 /\ calls = 0

\* C3: a cycle in which display met an IOError is followed by the 60 s
\* error interval, not the 30 s one.
C3_IOErrorBacksOff ==
    (CycleOver /\ ioerr) => sleep = ErrorInterval

\* C4: an exception raised in the loop body never ends the process: it is
\* followed by the 60 s sleep with old_data as it was when the cycle
\* started, and then by a complete new cycle.
C4_LoopLevelCatch ==
    /\ [](/\ exit \in {"running", "KeyboardInterrupt", "SystemExit"}
          /\ pc = "backoff" =>
                /\ exit = "running"
                /\ sleep = ErrorInterval
                /\ old_data = cycle_old)
    /\ [][(pc = "backoff" /\ pc' # "backoff" /\ exit' = "running")
            => (pc' = "uptimes" /\ ~fetched' /\ calls' = 0
                /\ old_data' = old_data)]_vars

\* The handler is sleeping after a TypeError left display, in a cycle that
\* started with a fingerprint recorded by an earlier one.
C4_Witness ==
    /\ pc = "backoff" /\ fetched
    /\ old_data # -1 /\ new_data # old_data

\* C7: when the process has ended, the device shutdown has been attempted.
C7_InterruptShutsDown ==
    pc = "exited" => module_exit

\* C10: between cycles, unless old_data is still the initial -1, the frame
\* the device last accepted is the one of the snapshot whose fingerprint is
\* old_data.
C10_OldDataMatchesDevice ==
    (CycleOver /\ old_data # -1) => shown = old_data

----------------------------------------------------------------------------
(* Properties of the layout (checked under SpecDisplay).                   *)

Drawn(s) == {i \in 1..Len(image) : image[i].op = "text" /\ image[i].s = s}

At(s, x, y) ==
    /\ Cardinality(Drawn(s)) = 1
    /\ \A i \in Drawn(s) : image[i].x = x /\ image[i].y = y

\* The incident rows drawn between the Backend and the Frontend heading.
BackendRows ==
    {i \in Drawn("title") \cup Drawn("culprit") :
        /\ \E b \in Drawn("Backend") : b < i
        /\ \E f \in Drawn("Frontend") : i < f}

\* C8: with no monitor down neither the heading nor the names are drawn and
\* Backend is at (160, 0); otherwise the heading is at y = 0, the names at
\* y = 50 and Backend at y = 80.  Frontend is strictly below the Backend
\* heading and every backend incident row.
C8_DownLayout ==
    pc = "push" =>
        /\ IF Len(down.val) = 0
           THEN /\ Drawn("!! Down Monitors !!") = {}
                /\ Drawn("down names") = {}
                /\ At("Backend", 160, 0)
           ELSE /\ At("!! Down Monitors !!", 160, 0)
                /\ At("down names", 160, 50)
                /\ At("Backend", 160, 80)
                /\ \A b \in Drawn("Backend") :
                     \A i \in Drawn("!! Down Monitors !!") \cup Drawn("down names") :
                        image[b].y > image[i].y
        /\ Cardinality(Drawn("Frontend")) = 1
        /\ Cardinality(BackendRows) = 2 * Len(backend_events.val)
        /\ \A f \in Drawn("Frontend") :
             /\ \A b \in Drawn("Backend") : image[f].y > image[b].y
             /\ \A i \in BackendRows : image[f].y > image[i].y

\* All of display's draw calls are made, with monitors down and a full list
\* of backend incidents.
C8_Witness ==
    /\ pc = "push"
    /\ Len(down.val) > 0
    /\ Len(backend_events.val) = MaxEvents
    /\ Len(frontend_events.val) > 0

----------------------------------------------------------------------------
(* Properties of get_service_ratios (checked under SpecRatios).            *)

\* ceil(n / p), at least 1: the requests a list of n monitors takes.
PagesFor(n, p) == IF n = 0 THEN 1 ELSE (n + p - 1) \div p

\* C5: once the pagination loop has ended the accumulated list is the
\* upstream's list, each monitor once and in order; and when every response
\* was a slice of it, request i was issued with the offset the i-1 pages
\* before it had accumulated, the last one completing the total.
C5_PaginationComplete ==
    rpc = "grouped" =>
        /\ monitors = upstream
        /\ all_ok =>
              /\ Len(offsets) = PagesFor(Len(upstream), page)
              /\ \A i \in 1..Len(offsets) : offsets[i] = (i - 1) * page

\* The loop has ended after at least two follow-up requests.
C5_Witness ==
    /\ rpc = "grouped" /\ all_ok
    /\ Len(offsets) >= 3
    /\ Len(monitors) = MaxMonitors

\* tok is the first space-delimited token of name.
IsFirstTokenOf(tok, name) ==
    /\ \A i \in 1..Len(tok) : tok[i] # " "
    /\ Len(tok) <= Len(name)
    /\ \A i \in 1..Len(tok) : name[i] = tok[i]
    /\ Len(name) > Len(tok) => name[Len(tok) + 1] = " "

\* The positions of the monitors that belong to service tok.
MembersOf(tok) ==
    {i \in 1..Len(monitors) : IsFirstTokenOf(tok, monitors[i].friendly_name)}

RECURSIVE SumOver(_)
SumOver(I) ==
    IF I = {} THEN 0
    ELSE LET i == CHOOSE j \in I : TRUE
         IN (monitors[i].custom_uptime_ratio[1] * 1000
             + monitors[i].custom_uptime_ratio[2]) + SumOver(I \ {i})

Keys(rs) == {rs[i][1] : i \in 1..Len(rs)}

\* C6: the monitors are partitioned by first token: one key per distinct
\* token, every monitor counted under exactly one key, and each value
\* returned is a hundredth nearest to the unweighted mean of the ratios of
\* the monitors with that token.
C6_GroupedMeans ==
    /\ rpc = "grouped" =>
          /\ Len(ratios) = Cardinality(Keys(ratios))
          /\ \A i \in 1..Len(monitors) :
                Cardinality({k \in 1..Len(ratios) :
                               i \in MembersOf(ratios[k][1])}) = 1
          /\ \A k \in 1..Len(ratios) :
                /\ MembersOf(ratios[k][1]) # {}
                /\ Len(ratios[k][2]) = Cardinality(MembersOf(ratios[k][1]))
          /\ SumSeq([k \in 1..Len(ratios) |-> Len(ratios[k][2])]) = Len(monitors)
    /\ (rpc = "returned" /\ ~result.none) =>
          /\ Len(result.val) = Cardinality(Keys(result.val))
          /\ \A i \in 1..Len(monitors) :
                \E k \in 1..Len(result.val) : i \in MembersOf(result.val[k][1])
          /\ \A k \in 1..Len(result.val) :
                LET members == MembersOf(result.val[k][1])
                    n == Cardinality(members)
                    sum == SumOver(members)
                    diff == result.val[k][2] * 10 * n - sum
                IN /\ n > 0
                   /\ 2 * diff <= 10 * n
                   /\ 2 * diff >= -(10 * n)

\* "a 1" at 99.5 and "a 2" at 98.5 are returned as one service at 99.0,
\* beside another service.
C6_Witness ==
    /\ rpc = "returned" /\ ~result.none
    /\ Len(monitors) = 3
    /\ \E k \in 1..Len(result.val) :
          /\ result.val[k] = <<(<<"a">>), 9900>>
          /\ Cardinality(MembersOf(<<"a">>)) = 2
    /\ Len(result.val) = 2

\* C9: a non-200 or non-"ok" response to any request ends the call with
\* the error outcome, and a page without monitors does not leave the call
\* in its pagination loop.
C9_NonOkEndsCall ==
    /\ status = "bad" => (rpc = "returned" /\ result = None)
    /\ status = "empty" => rpc # "paging"

====
